---- MODULE Spec2Model ----
(***************************************************************************)
(* usePoolsQuery: the paginated pool query of the frontend, in its two     *)
(* versions.                                                               *)
(*   "current": src/unnamed/part_000 (balancer API + poolsStoreService)    *)
(*   "legacy" : src/src/composables/queries/usePoolsQuery.ts               *)
(*              (PoolsFallbackRepository over API and subgraph adapters)   *)
(* Optional values (undefined in the source) are sequences of length 0 or  *)
(* 1; a number that the source only tests with || or a truthiness test is  *)
(* a natural number with 0 for undefined.                                  *)
(* What the hook calls but the source files do not hold is modelled from   *)
(* the specification: the backends (stable ordered record lists), the      *)
(* fallback repository and its adapters, poolsStoreService (a list that    *)
(* addPools appends to), and the infinite query that calls queryFn (one    *)
(* request at a time per query key, a next page as long as                 *)
(* getNextPageParam gives a value, a restart when the key changes).        *)
(***************************************************************************)
EXTENDS Integers, Sequences, FiniteSets, TLC

(* ------------------------------ bounds -------------------------------- *)
\* records held by the backend of the balancer API / API adapter
NumPools == 4
\* records held by the backend of the subgraph adapter (legacy fallback)
NumSubgraphPools == 3
\* queryFn invocations the caller asks for in one behaviour
MaxFetches == 2

(* ------------------------- program constants -------------------------- *)
\* POOLS.Pagination.PerPage
PerPage == 10
\* first: 10 of the legacy query args
LegacyFirst == 10

None == <<>>
Some(x) == <<x>>

Min(a, b) == IF a < b THEN a ELSE b

\* the elements s[i], lo <= i <= hi, in order (empty when there are none)
SelectSeqIdx(s, lo, hi) ==
  IF lo > hi \/ lo > Len(s) THEN <<>> ELSE SubSeq(s, lo, Min(hi, Len(s)))

(* ------------------------------ inputs -------------------------------- *)
\* address.toLowerCase()
toLowerCase(address) ==
  CASE address = "0xAAA" -> "0xaaa"
    [] address = "0xBbB" -> "0xbbb"
    [] OTHER -> address

\* filterOptions.value (current) / tokenList + filterOptions (legacy)
FilterOf(tokens, pageSize, first, sortField) ==
  [tokens |-> tokens, pageSize |-> pageSize, first |-> first,
   sortField |-> sortField]

Filters ==
  { FilterOf(<<>>, 0, 0, ""),
    FilterOf(<<"0xAAA">>, 2, 0, ""),
    FilterOf(<<>>, 2, 0, "apr"),
    FilterOf(<<>>, 1, 2, "volume"),
    FilterOf(<<>>, 2, 1, "totalLiquidity"),
    FilterOf(<<"0xBbB">>, 0, 0, ""),
    FilterOf(<<"0xAAA", "0xBbB">>, 3, 0, "volume") }

\* a pool of the backend; apr.max and totalSwapVolume are what customSort reads
Pool(i) ==
  [id |-> i,
   tokensList |-> (IF i % 2 = 1 THEN {"0xaaa"} ELSE {}) \cup
                  (IF i % 3 # 0 THEN {"0xbbb"} ELSE {}),
   apr |-> (i * 3) % 5,
   totalSwapVolume |-> (i * 2) % 5]

\* the pools of a backend holding n of them, in id order
AllPools(n) == [i \in 1..n |-> Pool(i)]

\* a || b on numbers
OrElse(a, b) == IF a # 0 THEN a ELSE b

\* the number an optional number stands for where the source writes (x || 0)
OrZero(opt) == IF opt = None THEN 0 ELSE opt[1]

\* the field a descending sort compares
SortKey(pool, field) ==
  IF field = "apr" THEN pool.apr ELSE pool.totalSwapVolume

\* the place of pools[i] after a stable descending sort: behind every
\* element with a larger key and every earlier element with the same key
RankDesc(pools, i, field) ==
  1 + Cardinality({j \in 1..Len(pools) :
        \/ SortKey(pools[j], field) > SortKey(pools[i], field)
        \/ SortKey(pools[j], field) = SortKey(pools[i], field) /\ j < i})

\* Array.prototype.sort with the comparator (a, b) => key(b) - key(a): stable
SortDesc(pools, field) ==
  [k \in 1..Len(pools) |->
     pools[CHOOSE i \in 1..Len(pools) : RankDesc(pools, i, field) = k]]

(* ------------------ current version: pure functions ------------------- *)
convertSortFieldToOrderBy(sortField) ==
  CASE sortField = "apr" -> "Apr"
    [] sortField = "volume" -> "Volume24h"
    [] OTHER -> "TotalLiquidity"

\* the poolIds and poolTypes filters are not modelled: no filter of Filters
\* sets them, so where.idIn stays absent and where.poolTypeIn the default
getQueryArgs(options, filter) ==
  LET tokenListFormatted ==
        [i \in 1..Len(filter.tokens) |-> toLowerCase(filter.tokens[i])]
  IN [orderBy |-> convertSortFieldToOrderBy(filter.sortField),
      orderDirection |-> "Desc",
      where |-> [tokensIn |-> tokenListFormatted],
      first |-> IF OrZero(options.first) # 0
                THEN Some(OrElse(filter.first, options.first[1]))
                ELSE None,
      skip |-> IF OrZero(options.skip) # 0 THEN options.skip ELSE None]

\* pageParam is the optional page parameter; its default is 0
getFetchOptions(pageParam, filter) ==
  LET param == OrZero(pageParam)
  IN [first |-> Some(OrElse(filter.pageSize, PerPage)),
      skip |-> IF param # 0 /\ param > 0 THEN Some(param) ELSE None]

customSort(pools, filter) ==
  LET poolsSortField ==
        IF filter.sortField # "" THEN filter.sortField ELSE "totalLiquidity"
  IN IF poolsSortField = "totalLiquidity" THEN pools
     ELSE IF poolsSortField = "apr" THEN SortDesc(pools, "apr")
     ELSE IF poolsSortField = "volume" THEN SortDesc(pools, "volume")
     ELSE pools

\* options.getNextPageParam
getNextPageParam(lastPage) == Some(OrElse(OrZero(lastPage.skip), 0))

\* balancerAPIService.pools.get: the backend orders by orderBy, applies skip
\* and first, and only then the token filter
BackendOrder(orderBy) ==
  CASE orderBy = "Apr" -> SortDesc(AllPools(NumPools), "apr")
    [] orderBy = "Volume24h" -> SortDesc(AllPools(NumPools), "volume")
    [] OTHER -> AllPools(NumPools)

HasTokens(pool, tokensIn) ==
  \A i \in 1..Len(tokensIn) : tokensIn[i] \in pool.tokensList

balancerApiGet(args) ==
  LET ordered == BackendOrder(args.orderBy)
      from == OrZero(args.skip) + 1
      upto == IF args.first = None THEN Len(ordered)
              ELSE Min(Len(ordered), OrZero(args.skip) + args.first[1])
      window == SelectSeqIdx(ordered, from, upto)
  IN SelectSeq(window, LAMBDA pool : HasTokens(pool, args.where.tokensIn))

(* ------------------- legacy version: pure functions ------------------- *)
\* pageParam is the optional page parameter, a string; its default is ''
getQueryArgsLegacy(pageParam, filter) ==
  LET tokenListFormatted ==
        [i \in 1..Len(filter.tokens) |-> toLowerCase(filter.tokens[i])]
      param == IF pageParam = None THEN "" ELSE pageParam[1]
  IN [orderBy |-> "totalLiquidity",
      orderDirection |-> "desc",
      where |-> [tokensList |-> [op |-> "Contains",
                                 value |-> tokenListFormatted]],
      first |-> IF Len(filter.tokens) > 0 THEN None ELSE Some(LegacyFirst),
      skip |-> IF param # "" THEN Some(param) ELSE None]

\* getNextPageParam with the fallback of the current version (skip || '0')
getNextPageParamLegacyOrZero(lastPage) ==
  IF lastPage.skip = None THEN Some("0") ELSE lastPage.skip

\* queryOptions.getNextPageParam
getNextPageParamLegacy(lastPage) == lastPage.skip

\* the decimal string of a cursor, and the cursor a decimal string stands for
MaxOffset == NumPools + NumSubgraphPools + LegacyFirst
ParseOffset(str) == CHOOSE n \in 0..MaxOffset : ToString(n) = str

\* new PoolsFallbackRepository([balancerApiRepository, subgraphRepository])
initializePoolsRepositoryLegacy ==
  [currentProviderIdx |-> 1, skip |-> <<0, 0>>]

\* the records one adapter's backend returns for the args, and the adapter's
\* cursor after the fetch: the next offset, or 0 once nothing came back
AdapterPools(provider) ==
  IF provider = 1 THEN AllPools(NumPools) ELSE AllPools(NumSubgraphPools)

adapterFetch(provider, args) ==
  LET offset == IF args.skip = None THEN 0 ELSE ParseOffset(args.skip[1])
      matching == SelectSeq(AdapterPools(provider),
                    LAMBDA pool : HasTokens(pool, args.where.tokensList.value))
      upto == IF args.first = None THEN Len(matching)
              ELSE Min(Len(matching), offset + args.first[1])
      found == SelectSeqIdx(matching, offset + 1, upto)
  IN [pools |-> found,
      skip |-> IF Len(found) > 0 THEN offset + Len(found) ELSE 0]

\* the cursor read from the first adapter of the chain, whichever answered
firstProviderSkip(repository) ==
  IF repository.skip[1] # 0 THEN Some(ToString(repository.skip[1])) ELSE None

\* poolsRepository.currentProvider?.skip ? skip.toString() : undefined
currentProviderSkip(repository) ==
  IF repository.currentProviderIdx > Len(repository.skip) THEN None
  ELSE IF repository.skip[repository.currentProviderIdx] # 0
       THEN Some(ToString(repository.skip[repository.currentProviderIdx]))
       ELSE None

(* ------------------------------- state -------------------------------- *)
VARIABLES
  variant,               \* "current" or "legacy": which usePoolsQuery runs
  isBalancerApiDefined,  \* the configuration flag queryFn reads
  filterOptions,         \* the filter descriptor, cursor excluded
  storePools,            \* poolsStoreService.pools.value
  storeOrigin,           \* per stored record: the call that fetched it
  inFlight,              \* queryFn invocations suspended at their await
  pages,                 \* data.pages of the infinite query, current key
  pageOrigin,            \* per page: "fetch" or "cache"
  lastResult,            \* how the latest queryFn invocation ended
  fetches                \* queryFn invocations asked for so far

vars == <<variant, isBalancerApiDefined, filterOptions, storePools, storeOrigin,
          inFlight, pages, pageOrigin, lastResult, fetches>>

NoResult == [outcome |-> "none"]

Init ==
  /\ variant \in {"current", "legacy"}
  /\ isBalancerApiDefined \in BOOLEAN
  /\ variant = "legacy" => isBalancerApiDefined
  /\ filterOptions \in Filters
  /\ storePools = <<>>
  /\ storeOrigin = <<>>
  /\ inFlight = {}
  /\ pages = <<>>
  /\ pageOrigin = <<>>
  /\ lastResult = NoResult
  /\ fetches = 0

(* ------------------------ pagination controller ----------------------- *)
\* the page parameter of the next page, None when there is none
NextPageParam ==
  IF pages = <<>> THEN None
  ELSE IF variant = "current" THEN getNextPageParam(pages[Len(pages)])
  ELSE getNextPageParamLegacy(pages[Len(pages)])

\* hasNextPage of the infinite query: getNextPageParam gave a value
hasNextPage == pages # <<>> /\ NextPageParam # None

Exhausted == pages # <<>> /\ ~hasNextPage
HasMore == ~Exhausted

\* the invocation of the current query key that is awaiting its backend
Active == {c \in inFlight : ~c.superseded}
Superseded == {c \in inFlight : c.superseded}

\* the start of queryFn up to its await: the args are built from the filter
\* as it is now
queryFnCall(pageParam, refetch) ==
  IF variant = "current"
  THEN LET fetchOptions == getFetchOptions(pageParam, filterOptions)
       IN [superseded |-> FALSE, filter |-> filterOptions,
           pageParam |-> pageParam, refetch |-> refetch,
           fetchOptions |-> fetchOptions,
           skip |-> OrZero(fetchOptions.first) + OrZero(fetchOptions.skip),
           args |-> getQueryArgs(fetchOptions, filterOptions)]
  ELSE [superseded |-> FALSE, filter |-> filterOptions,
        pageParam |-> pageParam, refetch |-> refetch,
        args |-> getQueryArgsLegacy(pageParam, filterOptions),
        repository |-> initializePoolsRepositoryLegacy]

\* what the infinite query does with a page queryFn returned
Deliver(call, page, origin) ==
  IF call.superseded
  THEN UNCHANGED <<pages, pageOrigin>>
  ELSE IF call.refetch
       THEN pages' = <<page>> /\ pageOrigin' = <<origin>>
       ELSE /\ pages' = Append(pages, page)
            /\ pageOrigin' = Append(pageOrigin, origin)

(* ------------------------- the caller's requests ---------------------- *)
\* what every request of the caller does: queryFn runs up to its await
Request(pageParam, refetch) ==
  /\ Active = {}
  /\ fetches < MaxFetches
  /\ inFlight' = inFlight \cup {queryFnCall(pageParam, refetch)}
  /\ fetches' = fetches + 1
  /\ lastResult' = NoResult
  /\ UNCHANGED <<variant, isBalancerApiDefined, filterOptions, storePools,
                 storeOrigin, pages, pageOrigin>>

\* the first page of the current query key: queryFn({}) with the default
FetchFirstPage ==
  /\ pages = <<>>
  /\ Request(None, FALSE)

\* fetchNextPage(): queryFn({pageParam: getNextPageParam(last page)})
FetchNextPage ==
  /\ hasNextPage
  /\ Request(NextPageParam, FALSE)

\* refetch from the start: the sequence begins again with the default page
\* parameter and the pages are replaced when the first page is back
Refetch ==
  /\ pages # <<>>
  /\ Request(None, TRUE)

\* the filter changes: the query key follows it, the query starts again, and
\* an invocation that is awaiting its backend goes on, superseded
Restart(newFilter) ==
  /\ newFilter # filterOptions
  /\ filterOptions' = newFilter
  /\ inFlight' = {[c EXCEPT !.superseded = TRUE] : c \in inFlight}
  /\ pages' = <<>>
  /\ pageOrigin' = <<>>
  /\ lastResult' = NoResult
  /\ UNCHANGED <<variant, isBalancerApiDefined, fetches>>

(* ------------------------- current version ---------------------------- *)
\* poolsStoreService.addPools: the page is appended to the stored records
addPools(stored, pools) == stored \o pools

\* queryFn from the await on, the fetch having succeeded
queryFnResolve(call) ==
  /\ variant = "current"
  /\ call \in inFlight
  /\ LET fetched == balancerApiGet(call.args)
         pools == IF ~isBalancerApiDefined
                  THEN customSort(fetched, filterOptions) ELSE fetched
         page == [pools |-> pools, skip |-> Some(call.skip)]
     IN /\ storePools' = addPools(storePools, pools)
        /\ storeOrigin' = storeOrigin \o
             [i \in 1..Len(pools) |->
                [superseded |-> call.superseded, filter |-> call.filter]]
        /\ lastResult' = [outcome |-> "page", call |-> call, page |-> page,
                          origin |-> "fetch", saved |-> storePools]
        /\ Deliver(call, page, "fetch")
  /\ inFlight' = inFlight \ {call}
  /\ UNCHANGED <<variant, isBalancerApiDefined, filterOptions, fetches>>

\* queryFn from the await on, the fetch having failed: the catch block
queryFnReject(call) ==
  /\ variant = "current"
  /\ call \in inFlight
  /\ LET savedPools == storePools
         page == [pools |-> savedPools, skip |-> Some(call.skip)]
     IN IF Len(savedPools) > 0
        THEN /\ lastResult' = [outcome |-> "page", call |-> call,
                               page |-> page, origin |-> "cache",
                               saved |-> storePools]
             /\ Deliver(call, page, "cache")
        ELSE /\ lastResult' = [outcome |-> "error", call |-> call,
                               saved |-> storePools]
             /\ UNCHANGED <<pages, pageOrigin>>
  /\ inFlight' = inFlight \ {call}
  /\ UNCHANGED <<variant, isBalancerApiDefined, filterOptions, storePools,
                 storeOrigin, fetches>>

\* watch(filterOptions, ..., {deep: true}): the repository is made anew and
\* the store is emptied
watchFilterOptions(newFilter) ==
  /\ variant = "current"
  /\ Restart(newFilter)
  /\ storePools' = <<>>
  /\ storeOrigin' = <<>>

(* -------------------------- legacy version ---------------------------- *)
\* queryFn from the await on: the adapter the fallback repository is at
\* answers, and the page takes that adapter's cursor
queryFnLegacyResolve(call) ==
  /\ variant = "legacy"
  /\ call \in inFlight
  /\ LET idx == call.repository.currentProviderIdx
         answer == adapterFetch(idx, call.args)
         repository == [call.repository EXCEPT !.skip[idx] = answer.skip]
         page == [pools |-> answer.pools,
                  skip |-> currentProviderSkip(repository),
                  enabled |-> TRUE]
     IN /\ lastResult' = [outcome |-> "page", call |-> call, page |-> page,
                          origin |-> "fetch", repository |-> repository]
        /\ Deliver(call, page, "fetch")
  /\ inFlight' = inFlight \ {call}
  /\ UNCHANGED <<variant, isBalancerApiDefined, filterOptions, storePools,
                 storeOrigin, fetches>>

\* the adapter the fallback repository is at fails: the next one is tried,
\* and queryFn throws when there is none
queryFnLegacyAdapterFails(call) ==
  /\ variant = "legacy"
  /\ call \in inFlight
  /\ LET repository ==
           [call.repository EXCEPT
              !.currentProviderIdx = call.repository.currentProviderIdx + 1]
     IN IF repository.currentProviderIdx > Len(repository.skip)
        THEN /\ lastResult' = [outcome |-> "error", call |-> call,
                               repository |-> repository]
             /\ inFlight' = inFlight \ {call}
        ELSE /\ inFlight' = (inFlight \ {call}) \cup
                              {[call EXCEPT !.repository = repository]}
             /\ UNCHANGED lastResult
  /\ UNCHANGED <<variant, isBalancerApiDefined, filterOptions, storePools,
                 storeOrigin, pages, pageOrigin, fetches>>

\* tokenList changes: the query key changes and the query starts again
changeTokenListLegacy(newFilter) ==
  /\ variant = "legacy"
  /\ Restart(newFilter)
  /\ UNCHANGED <<storePools, storeOrigin>>

(* --------------------------- specifications --------------------------- *)
Next ==
  \/ FetchFirstPage
  \/ FetchNextPage
  \/ Refetch
  \/ \E call \in inFlight : queryFnResolve(call)
  \/ \E call \in inFlight : queryFnReject(call)
  \/ \E newFilter \in Filters : watchFilterOptions(newFilter)
  \/ \E call \in inFlight : queryFnLegacyResolve(call)
  \/ \E call \in inFlight : queryFnLegacyAdapterFails(call)
  \/ \E newFilter \in Filters : changeTokenListLegacy(newFilter)

Spec == Init /\ [][Next]_vars

\* the caller keeps asking for the next page of one filter, and no backend
\* fails
NextPaging ==
  \/ FetchFirstPage
  \/ FetchNextPage
  \/ \E call \in inFlight : queryFnResolve(call)
  \/ \E call \in inFlight : queryFnLegacyResolve(call)

SpecPaging == Init /\ [][NextPaging]_vars /\ WF_vars(NextPaging)

(* ------------------------------ claims -------------------------------- *)
\* queryFn has just returned a page / a page made of the stored records
Returned == lastResult.outcome = "page"
ReturnedFromCache == Returned /\ lastResult.origin = "cache"
ReturnedFetched == Returned /\ lastResult.origin = "fetch"

RECURSIVE ConcatIds(_)
\* the record ids of the pages, in fetch order
ConcatIds(pp) ==
  IF pp = <<>> THEN <<>>
  ELSE [i \in 1..Len(pp[1].pools) |-> pp[1].pools[i].id] \o ConcatIds(Tail(pp))

NoDuplicates(ids) ==
  \A i, j \in 1..Len(ids) : ids[i] = ids[j] => i = j

IsPrefix(short, long) ==
  Len(short) <= Len(long) /\ short = SubSeq(long, 1, Len(short))

\* every record of the backend that passes the filter's token list, in the
\* backend's order for the filter's sort field
MatchingIds(filter) ==
  LET args == getQueryArgs([first |-> None, skip |-> None], filter)
      all == balancerApiGet(args)
  IN [i \in 1..Len(all) |-> all[i].id]

\* C1: the args built for a page fetch hold no page-size limit ('first')
\* when the filter's token list is non-empty, and hold one when it is empty
C1_NoLimitWithTokenList ==
  \A call \in inFlight :
    /\ Len(call.filter.tokens) > 0 => call.args.first = None
    /\ Len(call.filter.tokens) = 0 => call.args.first # None

\* C2: a failed fetch for identity Q that is answered from the cache returns
\* exactly the records fetched for Q before, in order, and leaves the cache
\* as it was
C2_FallbackReturnsRecordsOfIdentity ==
  ReturnedFromCache =>
    /\ lastResult.page.pools = lastResult.saved
    /\ storePools = lastResult.saved
    /\ \A i \in 1..Len(storeOrigin) :
         storeOrigin[i].filter = lastResult.call.filter

\* C3: the result of a fetch that a filter change superseded is discarded:
\* no record of the cache comes from a superseded fetch, and a superseded
\* fetch's page never reaches the pages of the current query
C3_SupersededResultDiscarded ==
  /\ \A i \in 1..Len(storeOrigin) : ~storeOrigin[i].superseded
  /\ (Returned /\ lastResult.call.superseded) => pages = <<>>

\* C4: when adapter 1 failed and adapter 2 answered, the returned page holds
\* adapter 2's records and its cursor is adapter 2's cursor after the fetch
C4_CursorOfAnsweringAdapter ==
  (variant = "legacy" /\ Returned
     /\ lastResult.call.repository.currentProviderIdx = 2) =>
    /\ lastResult.page.pools = adapterFetch(2, lastResult.call.args).pools
    /\ lastResult.page.skip =
         IF lastResult.repository.skip[2] = 0 THEN None
         ELSE Some(ToString(lastResult.repository.skip[2]))

C4_Witness ==
  /\ variant = "legacy"
  /\ Returned
  /\ lastResult.call.repository.currentProviderIdx = 2
  /\ lastResult.repository.skip[2] # 0
  /\ lastResult.repository.skip[1] # lastResult.repository.skip[2]
  /\ lastResult.page.pools # <<>>

\* the cursor of a page is empty or absent
EmptyCursor(skip) ==
  \/ skip = None
  \/ IF variant = "current" THEN skip[1] = 0 ELSE skip[1] = ""

\* C5: the controller starts in HasMore with no cursor; once a page is in,
\* it is Exhausted exactly when the last page's cursor is empty or absent,
\* and otherwise the next page is fetched with the last page's cursor
C5_ControllerFollowsCursor ==
  /\ pages = <<>> =>
       /\ HasMore
       /\ \A call \in Active : call.pageParam = None
  /\ pages # <<>> =>
       /\ Exhausted <=> EmptyCursor(pages[Len(pages)].skip)
       /\ HasMore =>
            \A call \in Active :
              ~call.refetch => call.pageParam = pages[Len(pages)].skip

C5_Witness ==
  /\ Len(pages) = 2
  /\ pageOrigin = <<"fetch", "fetch">>
  /\ ~EmptyCursor(pages[1].skip)
  /\ Exhausted

\* C6: the pages fetched in a row under one filter hold no record twice and
\* leave out no record
C6_NoDuplicateNoGap ==
  (variant = "current" /\ \A i \in 1..Len(pageOrigin) : pageOrigin[i] = "fetch")
    => /\ NoDuplicates(ConcatIds(pages))
       /\ IsPrefix(ConcatIds(pages), MatchingIds(filterOptions))

\* C7: once the first page of a restarted sequence is back, the accumulated
\* records are exactly that page
C7_RestartLeavesOnlyFirstPage ==
  (variant = "current" /\ ReturnedFetched /\ ~lastResult.call.superseded
     /\ lastResult.call.pageParam = None) =>
    /\ pages = <<lastResult.page>>
    /\ storePools = lastResult.page.pools

\* C8: the cache never holds records fetched under an old filter together
\* with records fetched under the current one, and a failed fetch under the
\* current filter is never answered with records of an old filter
C8_NoRecordsOfOldFilter ==
  /\ ~ \E i, j \in 1..Len(storeOrigin) :
         storeOrigin[i].superseded /\ ~storeOrigin[j].superseded
  /\ (ReturnedFromCache /\ ~lastResult.call.superseded) =>
       \A i \in 1..Len(storeOrigin) : ~storeOrigin[i].superseded

\* C9: a page answered from the cache carries the cursor the failed fetch
\* was called with, and a failed fetch with an empty cache ends in the error
C9_FallbackKeepsRequestedCursor ==
  /\ ReturnedFromCache =>
       OrZero(lastResult.page.skip) = OrZero(lastResult.call.pageParam)
  /\ (variant = "current" /\ lastResult.outcome = "error") =>
       lastResult.saved = <<>>

\* the current version offers a next page after every page
CurrentAlwaysOffersNextPage ==
  (variant = "current" /\ pages # <<>>) => hasNextPage

====
